---- MODULE Spec2Model ----
(***************************************************************************)
(* A model of src/src/rasterizeTools.h: the bounding box, signed area,     *)
(* barycentric coordinate, coverage test, attribute interpolation and      *)
(* texture lookup helpers of the rasterizer.                               *)
(*                                                                         *)
(* Numbers.  A C++ float is modelled as an IEEE-754 value without          *)
(* rounding: a finite value is an exact signed fraction (sign, numerator,  *)
(* denominator, so that +0 and -0 are distinct), and the special values    *)
(* +Inf, -Inf and NaN are produced and propagated as IEEE-754 prescribes   *)
(* (x/0, 0/0, Inf-Inf, 0*Inf, comparisons with NaN false).  The rounding   *)
(* of binary32 results and overflow to infinity are not modelled: every    *)
(* equality below between finite values is an equality of exact values,    *)
(* which the compiled code meets up to floating-point rounding.            *)
(*                                                                         *)
(* The functions are pure, so each is an operator, and the state machine   *)
(* is a caller: the state holds the arguments, the name of the function    *)
(* called last (op) and what it returned (ret).                            *)
(***************************************************************************)
EXTENDS Integers, Sequences, FiniteSets, TLC

VARIABLES tri, point, barycentricCoord, attrib,
          pTextureData, texcoord, w, h, stride, reads,
          op, ret

vars == <<tri, point, barycentricCoord, attrib,
          pTextureData, texcoord, w, h, stride, reads, op, ret>>

(***************************************************************************)
(* Bounds of the model.                                                    *)
(***************************************************************************)
\* vertex x and y range over 0..MaxCoord
MaxCoord == 2
\* vertex z ranges over 0..MaxZ
MaxZ == 1
\* query points range over -PointPad..MaxCoord+PointPad in x and in y
PointPad == 1
\* vertex x and y of the interpolation runs range over 0..MaxCoordI
MaxCoordI == 1
\* texture width and height range over 1..MaxDim
MaxDim == 3
\* the channel stride ranges over Channels..MaxStride
MaxStride == 4
\* texture coordinates are the multiples of 1/TexDen in [-MaxTexWraps, MaxTexWraps]
TexDen == 4
MaxTexWraps == 2

(***************************************************************************)
(* Constants of the program.                                               *)
(***************************************************************************)
\* the channels getColorFromTextureData reads of a texel: offsets 0, 1 and 2
Channels == 3
\* the divisor 255.f that maps a byte to [0, 1]
ByteMax == 255

(***************************************************************************)
(* float                                                                   *)
(***************************************************************************)
RECURSIVE Gcd(_, _)
Gcd(a, b) == IF b = 0 THEN a ELSE Gcd(b, a % b)

\* a finite float: (-1)^s * n/d, in lowest terms
Fin(s, n, d) ==
    LET g == Gcd(n, d) IN [k |-> "fin", s |-> s, n |-> n \div g, d |-> d \div g]

Inf(s) == [k |-> "inf", s |-> s, n |-> 0, d |-> 1]

NaN == [k |-> "nan", s |-> 0, n |-> 0, d |-> 1]

\* int -> float conversion
FromInt(i) == IF i < 0 THEN Fin(1, -i, 1) ELSE Fin(0, i, 1)

IsNaN(a) == a.k = "nan"
IsFinite(a) == a.k = "fin"
IsZero(a) == a.k = "fin" /\ a.n = 0

\* the signed numerator of a finite float
SNum(a) == IF a.s = 1 THEN -a.n ELSE a.n

Xor(s, t) == (s + t) % 2

\* unary minus
FNeg(a) == IF IsNaN(a) THEN a ELSE [a EXCEPT !.s = 1 - a.s]

\* a * b
FMul(a, b) ==
    IF IsNaN(a) \/ IsNaN(b) THEN NaN
    ELSE IF a.k = "inf" \/ b.k = "inf"
         THEN IF IsZero(a) \/ IsZero(b) THEN NaN ELSE Inf(Xor(a.s, b.s))
         ELSE Fin(Xor(a.s, b.s), a.n * b.n, a.d * b.d)

\* a / b: a division by zero is not an error, it gives an infinity or NaN
FDiv(a, b) ==
    IF IsNaN(a) \/ IsNaN(b) THEN NaN
    ELSE IF a.k = "inf"
         THEN IF b.k = "inf" THEN NaN ELSE Inf(Xor(a.s, b.s))
    ELSE IF b.k = "inf" THEN Fin(Xor(a.s, b.s), 0, 1)
    ELSE IF b.n = 0
         THEN IF a.n = 0 THEN NaN ELSE Inf(Xor(a.s, b.s))
         ELSE Fin(Xor(a.s, b.s), a.n * b.d, a.d * b.n)

\* a + b: an exact zero sum is +0 unless both operands are -0
FAdd(a, b) ==
    IF IsNaN(a) \/ IsNaN(b) THEN NaN
    ELSE IF a.k = "inf"
         THEN IF b.k = "inf" /\ a.s # b.s THEN NaN ELSE a
    ELSE IF b.k = "inf" THEN b
    ELSE LET m == SNum(a) * b.d + SNum(b) * a.d
         IN  IF m = 0
             THEN Fin(IF IsZero(a) /\ IsZero(b) /\ a.s = 1 /\ b.s = 1
                      THEN 1 ELSE 0, 0, 1)
             ELSE IF m < 0 THEN Fin(1, -m, a.d * b.d) ELSE Fin(0, m, a.d * b.d)

\* a - b
FSub(a, b) == FAdd(a, FNeg(b))

\* a < b: false when either is NaN; -0 and +0 are equal
FLt(a, b) ==
    /\ ~IsNaN(a) /\ ~IsNaN(b)
    /\ \/ a.k = "inf" /\ a.s = 1 /\ ~(b.k = "inf" /\ b.s = 1)
       \/ b.k = "inf" /\ b.s = 0 /\ ~(a.k = "inf" /\ a.s = 0)
       \/ a.k = "fin" /\ b.k = "fin" /\ SNum(a) * b.d < SNum(b) * a.d

\* a == b: false when either is NaN; -0 and +0 are equal
FEq(a, b) ==
    /\ ~IsNaN(a) /\ ~IsNaN(b)
    /\ \/ a.k = "inf" /\ b.k = "inf" /\ a.s = b.s
       \/ a.k = "fin" /\ b.k = "fin" /\ SNum(a) * b.d = SNum(b) * a.d

\* a <= b
FLe(a, b) == FLt(a, b) \/ FEq(a, b)

\* a >= b
FGe(a, b) == FLe(b, a)

\* min(a, b) and max(a, b) of two floats (fminf, fmaxf: a NaN operand is dropped)
FMin(a, b) == IF IsNaN(a) THEN b ELSE IF IsNaN(b) THEN a ELSE IF FLt(b, a) THEN b ELSE a

FMax(a, b) == IF IsNaN(a) THEN b ELSE IF IsNaN(b) THEN a ELSE IF FLt(a, b) THEN b ELSE a

\* (int)a of a finite float: the fraction is dropped (truncation toward zero)
CInt(a) == IF a.s = 1 THEN -(a.n \div a.d) ELSE a.n \div a.d

\* a % b of two ints, b > 0: the result has the sign of a
CRem(a, b) == IF a < 0 THEN -((-a) % b) ELSE a % b

\* the literals 0.f, 1.f (1.0) and 0.5
Zero == Fin(0, 0, 1)
One == Fin(0, 1, 1)
Half == Fin(0, 1, 2)

(***************************************************************************)
(* glm::vec2, glm::vec3 and the arrays of three of them.  A C array index  *)
(* i is the sequence index i + 1.                                          *)
(***************************************************************************)
X(v) == v[1]
Y(v) == v[2]
Z(v) == v[3]

\* tri[i], normal[i], color[i]
At(arr, i) == arr[i + 1]

\* glm::vec2(v.x, v.y)
Vec2(v) == <<X(v), Y(v)>>

\* float * vec3
V3Scale(f, v) == <<FMul(f, X(v)), FMul(f, Y(v)), FMul(f, Z(v))>>

\* vec3 + vec3
V3Add(u, v) == <<FAdd(X(u), X(v)), FAdd(Y(u), Y(v)), FAdd(Z(u), Z(v))>>

(***************************************************************************)
(* The functions of rasterizeTools.h.                                      *)
(***************************************************************************)
\* fault: the greatest z compares vertex 1 twice and never vertex 2
getAABBForTriangle_MaxZSkipsVertex2(t) ==
    [min |-> <<FMin(FMin(X(At(t, 0)), X(At(t, 1))), X(At(t, 2))),
               FMin(FMin(Y(At(t, 0)), Y(At(t, 1))), Y(At(t, 2))),
               FMin(FMin(Z(At(t, 0)), Z(At(t, 1))), Z(At(t, 2)))>>,
     max |-> <<FMax(FMax(X(At(t, 0)), X(At(t, 1))), X(At(t, 2))),
               FMax(FMax(Y(At(t, 0)), Y(At(t, 1))), Y(At(t, 2))),
               FMax(FMax(Z(At(t, 0)), Z(At(t, 1))), Z(At(t, 1)))>>]

getAABBForTriangle(t) ==
    [min |-> <<FMin(FMin(X(At(t, 0)), X(At(t, 1))), X(At(t, 2))),
               FMin(FMin(Y(At(t, 0)), Y(At(t, 1))), Y(At(t, 2))),
               FMin(FMin(Z(At(t, 0)), Z(At(t, 1))), Z(At(t, 2)))>>,
     max |-> <<FMax(FMax(X(At(t, 0)), X(At(t, 1))), X(At(t, 2))),
               FMax(FMax(Y(At(t, 0)), Y(At(t, 1))), Y(At(t, 2))),
               FMax(FMax(Z(At(t, 0)), Z(At(t, 1))), Z(At(t, 2)))>>]

\* fault: the factor 0.5 is missing
calculateSignedArea_NoHalf(t) ==
    FSub(FMul(FSub(X(At(t, 2)), X(At(t, 0))), FSub(Y(At(t, 1)), Y(At(t, 0)))),
         FMul(FSub(X(At(t, 1)), X(At(t, 0))), FSub(Y(At(t, 2)), Y(At(t, 0)))))

calculateSignedArea(t) ==
    FMul(Half,
         FSub(FMul(FSub(X(At(t, 2)), X(At(t, 0))), FSub(Y(At(t, 1)), Y(At(t, 0)))),
              FMul(FSub(X(At(t, 1)), X(At(t, 0))), FSub(Y(At(t, 2)), Y(At(t, 0))))))

\* fault: a zero area is guarded, and 0 returned for it
calculateBarycentricCoordinateValue_ZeroGuard(a, b, c, t) ==
    LET baryTri == <<<<X(a), Y(a), Zero>>, <<X(b), Y(b), Zero>>, <<X(c), Y(c), Zero>>>>
    IN  IF IsZero(calculateSignedArea(t)) THEN Zero
        ELSE FDiv(calculateSignedArea(baryTri), calculateSignedArea(t))

calculateBarycentricCoordinateValue(a, b, c, t) ==
    LET baryTri == <<<<X(a), Y(a), Zero>>, <<X(b), Y(b), Zero>>, <<X(c), Y(c), Zero>>>>
    IN  FDiv(calculateSignedArea(baryTri), calculateSignedArea(t))

\* fault: alpha = 1.0 - beta, gamma is not subtracted
calculateBarycentricCoordinate_AlphaOmitsGamma(t, p) ==
    LET beta  == calculateBarycentricCoordinateValue(Vec2(At(t, 0)), p, Vec2(At(t, 2)), t)
        gamma == calculateBarycentricCoordinateValue(Vec2(At(t, 0)), Vec2(At(t, 1)), p, t)
        alpha == FSub(One, beta)
    IN  <<alpha, beta, gamma>>

\* fault: beta and gamma are returned in each other's place
calculateBarycentricCoordinate_SwappedWeights(t, p) ==
    LET beta  == calculateBarycentricCoordinateValue(Vec2(At(t, 0)), p, Vec2(At(t, 2)), t)
        gamma == calculateBarycentricCoordinateValue(Vec2(At(t, 0)), Vec2(At(t, 1)), p, t)
        alpha == FSub(FSub(One, beta), gamma)
    IN  <<alpha, gamma, beta>>

\* fault: gamma is taken on the sub-triangle (tri[1], tri[2], point), which is alpha's
calculateBarycentricCoordinate_WrongSubTriangle(t, p) ==
    LET beta  == calculateBarycentricCoordinateValue(Vec2(At(t, 0)), p, Vec2(At(t, 2)), t)
        gamma == calculateBarycentricCoordinateValue(Vec2(At(t, 1)), Vec2(At(t, 2)), p, t)
        alpha == FSub(FSub(One, beta), gamma)
    IN  <<alpha, beta, gamma>>

calculateBarycentricCoordinate(t, p) ==
    LET beta  == calculateBarycentricCoordinateValue(Vec2(At(t, 0)), p, Vec2(At(t, 2)), t)
        gamma == calculateBarycentricCoordinateValue(Vec2(At(t, 0)), Vec2(At(t, 1)), p, t)
        alpha == FSub(FSub(One, beta), gamma)
    IN  <<alpha, beta, gamma>>

\* fault: the third weight is not tested
isBarycentricCoordInBounds_SkipsZ(b) ==
    /\ FGe(X(b), Zero) /\ FLe(X(b), One)
    /\ FGe(Y(b), Zero) /\ FLe(Y(b), One)

isBarycentricCoordInBounds(b) ==
    /\ FGe(X(b), Zero) /\ FLe(X(b), One)
    /\ FGe(Y(b), Zero) /\ FLe(Y(b), One)
    /\ FGe(Z(b), Zero) /\ FLe(Z(b), One)

\* fault: the third weight multiplies tri[1].z
getZAtCoordinate_RepeatsVertex1(b, t) ==
    FAdd(FAdd(FMul(X(b), Z(At(t, 0))), FMul(Y(b), Z(At(t, 1)))), FMul(Z(b), Z(At(t, 1))))

getZAtCoordinate(b, t) ==
    FAdd(FAdd(FMul(X(b), Z(At(t, 0))), FMul(Y(b), Z(At(t, 1)))), FMul(Z(b), Z(At(t, 2))))

getNormalAtCoordinate(b, normal) ==
    V3Add(V3Add(V3Scale(X(b), At(normal, 0)), V3Scale(Y(b), At(normal, 1))),
          V3Scale(Z(b), At(normal, 2)))

getColorAtCoordinate(b, color) ==
    V3Add(V3Add(V3Scale(X(b), At(color, 0)), V3Scale(Y(b), At(color, 1))),
          V3Scale(Z(b), At(color, 2)))

\* fault: the column is not reduced modulo w
TexelX_NoWrap(tc, width) == CInt(FMul(FromInt(width), X(tc)))

\* int x = (int)(w * texcoord.x) % w
TexelX(tc, width) == CRem(CInt(FMul(FromInt(width), X(tc))), width)

\* int y = (int)(h * texcoord.y) % h
TexelY(tc, height) == CRem(CInt(FMul(FromInt(height), Y(tc))), height)

\* int index = x + y * w
TexelIndex(tc, width, height) == TexelX(tc, width) + TexelY(tc, height) * width

\* the offsets into pTextureData the function reads
TexelOffsets(tc, width, height, str) ==
    {TexelIndex(tc, width, height) * str + c : c \in 0..(Channels - 1)}

\* the value returned when every offset read is inside the buffer
getColorFromTextureData(data, tc, width, height, str) ==
    LET index == TexelIndex(tc, width, height)
    IN  <<FDiv(FromInt(At(data, index * str)), FromInt(ByteMax)),
          FDiv(FromInt(At(data, index * str + 1)), FromInt(ByteMax)),
          FDiv(FromInt(At(data, index * str + 2)), FromInt(ByteMax))>>

(***************************************************************************)
(* The inputs the caller draws.                                            *)
(***************************************************************************)
Vertices(cs, zs) == {<<FromInt(x), FromInt(y), FromInt(z)>> : x \in cs, y \in cs, z \in zs}

Triangles(cs, zs) == {<<a, b, c>> : a, b, c \in Vertices(cs, zs)}

Points(cs) == {<<FromInt(x), FromInt(y)>> : x \in cs, y \in cs}

\* arrays of per-vertex normals or colors: three different vectors, in each rotation
AttrTriples ==
    LET a == <<Zero, Zero, One>>
        b == <<One, Zero, Half>>
        c == <<Half, One, Zero>>
    IN  {<<a, b, c>>, <<b, c, a>>, <<c, a, b>>}

TexCoords ==
    LET cs == {FromInt(a) : a \in (0 - MaxTexWraps * TexDen)..(MaxTexWraps * TexDen)}
    IN  {<<FDiv(u, FromInt(TexDen)), FDiv(v, FromInt(TexDen))>> : u, v \in cs}

\* a buffer of size bytes in which neighbouring offsets hold different bytes
TextureBuffers(size) ==
    {[i \in 1..size |-> (i - 1) % (ByteMax + 1)],
     [i \in 1..size |-> ByteMax - ((i - 1) % (ByteMax + 1))]}

\* what a read outside the buffer can give: any bytes, or a fault
OutOfBoundsReads ==
    {<<"fault">>} \cup {<<FDiv(FromInt(b), FromInt(ByteMax)),
                          FDiv(FromInt(b), FromInt(ByteMax)),
                          FDiv(FromInt(b), FromInt(ByteMax))>> : b \in {0, ByteMax}}

NoTexture ==
    /\ pTextureData = <<>> /\ texcoord = <<>> /\ w = 0 /\ h = 0 /\ stride = 0
    /\ reads = {}

(***************************************************************************)
(* The calls.                                                              *)
(***************************************************************************)
GetAABBForTriangle ==
    /\ op' = "getAABBForTriangle"
    /\ ret' = getAABBForTriangle(tri)
    /\ attrib' = <<>>
    /\ UNCHANGED <<tri, point, barycentricCoord,
                   pTextureData, texcoord, w, h, stride, reads>>

CalculateSignedArea ==
    /\ op' = "calculateSignedArea"
    /\ ret' = calculateSignedArea(tri)
    /\ attrib' = <<>>
    /\ UNCHANGED <<tri, point, barycentricCoord,
                   pTextureData, texcoord, w, h, stride, reads>>

CalculateBarycentricCoordinate ==
    /\ op' = "calculateBarycentricCoordinate"
    /\ ret' = calculateBarycentricCoordinate(tri, point)
    /\ barycentricCoord' = ret'
    /\ attrib' = <<>>
    /\ UNCHANGED <<tri, point, pTextureData, texcoord, w, h, stride, reads>>

\* the caller passes the barycentric coordinate it computed last
IsBarycentricCoordInBounds ==
    /\ barycentricCoord # <<>>
    /\ op' = "isBarycentricCoordInBounds"
    /\ ret' = isBarycentricCoordInBounds(barycentricCoord)
    /\ attrib' = <<>>
    /\ UNCHANGED <<tri, point, barycentricCoord,
                   pTextureData, texcoord, w, h, stride, reads>>

GetZAtCoordinate ==
    /\ barycentricCoord # <<>>
    /\ op' = "getZAtCoordinate"
    /\ ret' = getZAtCoordinate(barycentricCoord, tri)
    /\ attrib' = <<>>
    /\ UNCHANGED <<tri, point, barycentricCoord,
                   pTextureData, texcoord, w, h, stride, reads>>

\* attrib is the array of per-vertex normals or colors passed to the call
GetNormalAtCoordinate ==
    /\ barycentricCoord # <<>>
    /\ \E normal \in AttrTriples :
          /\ attrib' = normal
          /\ ret' = getNormalAtCoordinate(barycentricCoord, normal)
    /\ op' = "getNormalAtCoordinate"
    /\ UNCHANGED <<tri, point, barycentricCoord,
                   pTextureData, texcoord, w, h, stride, reads>>

GetColorAtCoordinate ==
    /\ barycentricCoord # <<>>
    /\ \E color \in AttrTriples :
          /\ attrib' = color
          /\ ret' = getColorAtCoordinate(barycentricCoord, color)
    /\ op' = "getColorAtCoordinate"
    /\ UNCHANGED <<tri, point, barycentricCoord,
                   pTextureData, texcoord, w, h, stride, reads>>

\* reads holds the offsets of pTextureData the call read
GetColorFromTextureData ==
    /\ op' = "getColorFromTextureData"
    /\ reads' = TexelOffsets(texcoord, w, h, stride)
    /\ IF reads' \subseteq 0..(Len(pTextureData) - 1)
          THEN ret' = getColorFromTextureData(pTextureData, texcoord, w, h, stride)
          ELSE ret' \in OutOfBoundsReads
    /\ UNCHANGED <<tri, point, barycentricCoord, attrib,
                   pTextureData, texcoord, w, h, stride>>

(***************************************************************************)
(* Triangles: bounding box and signed area.                                *)
(***************************************************************************)
InitTri ==
    /\ tri \in Triangles(0..MaxCoord, 0..MaxZ)
    /\ point = <<>> /\ barycentricCoord = <<>> /\ attrib = <<>>
    /\ NoTexture
    /\ op = "" /\ ret = <<>>

NextTri == GetAABBForTriangle \/ CalculateSignedArea

SpecTri == InitTri /\ [][NextTri]_vars

(***************************************************************************)
(* Coverage: the barycentric coordinate of a point and the bounds test.    *)
(***************************************************************************)
InitBary ==
    /\ tri \in Triangles(0..MaxCoord, {0})
    /\ point \in Points((0 - PointPad)..(MaxCoord + PointPad))
    /\ barycentricCoord = <<>> /\ attrib = <<>>
    /\ NoTexture
    /\ op = "" /\ ret = <<>>

NextBary == CalculateBarycentricCoordinate \/ IsBarycentricCoordInBounds

SpecBary == InitBary /\ [][NextBary]_vars

(***************************************************************************)
(* Interpolation of depth, normal and color at a point.                    *)
(***************************************************************************)
InitInterp ==
    /\ tri \in Triangles(0..MaxCoordI, 0..MaxZ)
    /\ \E i \in 0..2 : point = Vec2(At(tri, i))
    /\ barycentricCoord = <<>> /\ attrib = <<>>
    /\ NoTexture
    /\ op = "" /\ ret = <<>>

NextInterp ==
    \/ CalculateBarycentricCoordinate
    \/ GetZAtCoordinate
    \/ GetNormalAtCoordinate
    \/ GetColorAtCoordinate

SpecInterp == InitInterp /\ [][NextInterp]_vars

(***************************************************************************)
(* Texture lookup.                                                         *)
(***************************************************************************)
InitTex ==
    /\ w \in 1..MaxDim /\ h \in 1..MaxDim /\ stride \in Channels..MaxStride
    /\ texcoord \in TexCoords
    /\ pTextureData \in TextureBuffers(w * h * stride)
    /\ reads = {}
    /\ tri = <<>> /\ point = <<>> /\ barycentricCoord = <<>> /\ attrib = <<>>
    /\ op = "" /\ ret = <<>>

NextTex == GetColorFromTextureData

SpecTex == InitTex /\ [][NextTex]_vars

(***************************************************************************)
(* Reference geometry for the properties, in integer arithmetic on the     *)
(* integer coordinates the runs draw.                                      *)
(***************************************************************************)
\* the integer a float of the runs' grid holds
IntOf(a) == SNum(a)

\* twice the area of (a, b, c), positive when a, b, c turn counter-clockwise
Orient(a, b, c) ==
    (IntOf(X(b)) - IntOf(X(a))) * (IntOf(Y(c)) - IntOf(Y(a)))
    - (IntOf(Y(b)) - IntOf(Y(a))) * (IntOf(X(c)) - IntOf(X(a)))

Abs(i) == IF i < 0 THEN -i ELSE i

FAbs(a) == IF IsNaN(a) THEN a ELSE [a EXCEPT !.s = 0]

\* the vertices' (x,y) are collinear or coincident
Degenerate(t) == Orient(At(t, 0), At(t, 1), At(t, 2)) = 0

\* p lies in the closed triangle spanned by the vertices' (x,y)
InClosedTriangle(t, p) ==
    LET o == Orient(At(t, 0), At(t, 1), At(t, 2))
    IN  /\ o # 0
        /\ Orient(At(t, 0), At(t, 1), p) * o >= 0
        /\ Orient(At(t, 1), At(t, 2), p) * o >= 0
        /\ Orient(At(t, 2), At(t, 0), p) * o >= 0

\* the 6 orderings of three vertices
Perms == {<<0, 1, 2>>, <<1, 2, 0>>, <<2, 0, 1>>, <<0, 2, 1>>, <<2, 1, 0>>, <<1, 0, 2>>}
Cyclic == {<<1, 2, 0>>, <<2, 0, 1>>}
Swaps == {<<0, 2, 1>>, <<2, 1, 0>>, <<1, 0, 2>>}

Permute(t, p) == <<At(t, p[1]), At(t, p[2]), At(t, p[3])>>

\* the triangle with the z of vertex i replaced by z
WithZ(t, i, z) == [t EXCEPT ![i + 1] = <<X(At(t, i)), Y(At(t, i)), z>>]

V2Eq(u, v) == FEq(X(u), X(v)) /\ FEq(Y(u), Y(v))

V3Eq(u, v) == FEq(X(u), X(v)) /\ FEq(Y(u), Y(v)) /\ FEq(Z(u), Z(v))

\* the weights (1,0,0), (0,1,0), (0,0,1) of vertex 0, 1, 2
UnitWeights(i) == <<IF i = 0 THEN One ELSE Zero, IF i = 1 THEN One ELSE Zero,
                    IF i = 2 THEN One ELSE Zero>>

Sum3(b) == FAdd(FAdd(X(b), Y(b)), Z(b))

(***************************************************************************)
(* Properties.                                                             *)
(***************************************************************************)

\* C1 as stated: for all triangles, the zero-area ones included, and all
\* points, the weights calculateBarycentricCoordinate returns sum to 1.
C1_SumIsOneForAllTriangles ==
    op = "calculateBarycentricCoordinate" => FEq(Sum3(ret), One)

\* C1 as amended: for all triangles of non-zero signed area and all points,
\* also points outside the triangle, the weights
\* calculateBarycentricCoordinate returns sum to 1.
C1_SumIsOneNonDegenerate ==
    (op = "calculateBarycentricCoordinate" /\ ~IsZero(calculateSignedArea(tri)))
        => FEq(Sum3(ret), One)

\* a point outside a triangle of non-zero area: one weight negative, one above 1
C1_Witness ==
    /\ op = "calculateBarycentricCoordinate"
    /\ ~IsZero(calculateSignedArea(tri))
    /\ \E i, j \in 1..3 : FLt(ret[i], Zero) /\ FLt(One, ret[j])
    /\ FEq(Sum3(ret), One)

\* C2: for a triangle of non-zero signed area, of either winding,
\* calculateBarycentricCoordinate at the (x,y) of vertex i returns the
\* weights with 1 at index i and 0 elsewhere.
C2_VertexIdentity ==
    (op = "calculateBarycentricCoordinate" /\ ~IsZero(calculateSignedArea(tri)))
        => \A i \in 0..2 : V2Eq(point, Vec2(At(tri, i))) => V3Eq(ret, UnitWeights(i))

\* the query point is vertex 1 of a triangle of negative signed area
C2_Witness ==
    /\ op = "calculateBarycentricCoordinate"
    /\ FLt(calculateSignedArea(tri), Zero)
    /\ V2Eq(point, Vec2(At(tri, 1)))
    /\ V3Eq(ret, UnitWeights(1))

C6_DegenerateNotCovered ==
    Degenerate(tri)
        => /\ op = "calculateBarycentricCoordinate"
                => /\ IsZero(calculateSignedArea(tri))
                   /\ \E i \in 1..3 : ~IsFinite(ret[i])
                   /\ ~isBarycentricCoordInBounds(ret)
           /\ op = "isBarycentricCoordInBounds" => ret = FALSE

\* three different collinear vertices, queried at vertex 0: not covered
C6_Witness ==
    /\ op = "isBarycentricCoordInBounds"
    /\ Degenerate(tri)
    /\ Cardinality({Vec2(At(tri, i)) : i \in 0..2}) = 3
    /\ V2Eq(point, Vec2(At(tri, 0)))
    /\ \E i \in 1..3 : ~IsFinite(barycentricCoord[i])
    /\ ret = FALSE

\* C10: for a triangle (V0,V1,V2) of non-zero signed area and any point P,
\* the weights returned reproduce P: alpha*V0.x + beta*V1.x + gamma*V2.x =
\* P.x and alpha*V0.y + beta*V1.y + gamma*V2.y = P.y.
C10_AffineCombination ==
    (op = "calculateBarycentricCoordinate" /\ ~Degenerate(tri))
        => /\ FEq(FAdd(FAdd(FMul(X(ret), X(At(tri, 0))), FMul(Y(ret), X(At(tri, 1)))),
                       FMul(Z(ret), X(At(tri, 2)))), X(point))
           /\ FEq(FAdd(FAdd(FMul(X(ret), Y(At(tri, 0))), FMul(Y(ret), Y(At(tri, 1)))),
                       FMul(Z(ret), Y(At(tri, 2)))), Y(point))

\* a point outside the triangle whose weights are not whole numbers
C10_Witness ==
    /\ op = "calculateBarycentricCoordinate"
    /\ ~Degenerate(tri)
    /\ ~InClosedTriangle(tri, point)
    /\ \A i \in 1..3 : IsFinite(ret[i]) /\ ret[i].d > 1

\* C8: for a triangle of non-zero signed area, interpolating with the
\* weights computed at vertex i's (x,y) gives back the z of vertex i
\* (getZAtCoordinate), normal i (getNormalAtCoordinate) and color i
\* (getColorAtCoordinate).
C8_RoundTrip ==
    \A i \in 0..2 :
        (~Degenerate(tri) /\ V2Eq(point, Vec2(At(tri, i))))
            => /\ op = "getZAtCoordinate" => FEq(ret, Z(At(tri, i)))
               /\ op = "getNormalAtCoordinate" => V3Eq(ret, At(attrib, i))
               /\ op = "getColorAtCoordinate" => V3Eq(ret, At(attrib, i))

\* the normal interpolated at vertex 2 of a triangle of negative signed area
C8_Witness ==
    /\ op = "getNormalAtCoordinate"
    /\ FLt(calculateSignedArea(tri), Zero)
    /\ V2Eq(point, Vec2(At(tri, 2)))
    /\ V3Eq(barycentricCoord, UnitWeights(2))
    /\ V3Eq(ret, At(attrib, 2))

\* C7: getAABBForTriangle returns in each of x, y, z the least and the
\* greatest of the three vertices' components: each bound is that of some
\* vertex, every vertex is inside, min <= max, the result is the same for
\* all 6 orderings, and (0,0,0),(4,0,1),(2,3,2) gives (0,0,0)..(4,3,2).
C7_BoundingBox ==
    op = "getAABBForTriangle"
        => /\ \A c \in 1..3 :
                /\ \E i \in 0..2 : FEq(ret.min[c], At(tri, i)[c])
                /\ \E i \in 0..2 : FEq(ret.max[c], At(tri, i)[c])
                /\ \A i \in 0..2 : /\ FLe(ret.min[c], At(tri, i)[c])
                                   /\ FLe(At(tri, i)[c], ret.max[c])
                /\ FLe(ret.min[c], ret.max[c])
           /\ \A p \in Perms :
                LET q == getAABBForTriangle(Permute(tri, p))
                IN  V3Eq(q.min, ret.min) /\ V3Eq(q.max, ret.max)
           /\ LET box == getAABBForTriangle(<<<<FromInt(0), FromInt(0), FromInt(0)>>,
                                              <<FromInt(4), FromInt(0), FromInt(1)>>,
                                              <<FromInt(2), FromInt(3), FromInt(2)>>>>)
              IN  /\ V3Eq(box.min, <<FromInt(0), FromInt(0), FromInt(0)>>)
                  /\ V3Eq(box.max, <<FromInt(4), FromInt(3), FromInt(2)>>)

\* a box of non-zero extent in x, y and z whose greatest z is that of vertex 2 alone
C7_Witness ==
    /\ op = "getAABBForTriangle"
    /\ \A c \in 1..3 : FLt(ret.min[c], ret.max[c])
    /\ FLt(Z(At(tri, 0)), Z(At(tri, 2))) /\ FLt(Z(At(tri, 1)), Z(At(tri, 2)))

\* C9: calculateSignedArea depends only on the vertices' x and y, its
\* absolute value is the triangle's 2D area for all 6 orderings, swapping
\* two vertices negates it and a cyclic rotation leaves it unchanged.
C9_SignedArea ==
    op = "calculateSignedArea"
        => /\ \A i \in 0..2 : \A z \in (0 - 1)..(MaxZ + 1) :
                FEq(calculateSignedArea(WithZ(tri, i, FromInt(z))), ret)
           /\ \A p \in Perms :
                FEq(FAbs(calculateSignedArea(Permute(tri, p))),
                    Fin(0, Abs(Orient(At(tri, 0), At(tri, 1), At(tri, 2))), 2))
           /\ \A p \in Swaps : FEq(calculateSignedArea(Permute(tri, p)), FNeg(ret))
           /\ \A p \in Cyclic : FEq(calculateSignedArea(Permute(tri, p)), ret)

\* a triangle of negative signed area whose vertices differ in z
C9_Witness ==
    /\ op = "calculateSignedArea"
    /\ FLt(ret, Zero)
    /\ ~FEq(Z(At(tri, 0)), Z(At(tri, 1)))

(***************************************************************************)
(* Properties of the texture lookup.                                       *)
(***************************************************************************)
\* floor(a) of a finite float
Floor(a) == IF a.s = 1 THEN -((a.n + a.d - 1) \div a.d) ELSE a.n \div a.d

InUnitInterval(a) == FLe(Zero, a) /\ FLe(a, One)

BufferOffsets == 0..(w * h * stride - 1)

\* C4: for w, h >= 1, stride >= 3 and 0 <= u, v <= 1,
\* getColorFromTextureData computes x in [0, w-1] and y in [0, h-1] and
\* reads the three offsets index*stride + 0..2 inside [0, w*h*stride);
\* texcoord (1.0, 1.0) addresses pixel (0,0).
C4_UnitTexcoordInBounds ==
    (op = "getColorFromTextureData"
     /\ InUnitInterval(X(texcoord)) /\ InUnitInterval(Y(texcoord)))
        => /\ TexelX(texcoord, w) \in 0..(w - 1)
           /\ TexelY(texcoord, h) \in 0..(h - 1)
           /\ reads = {TexelIndex(texcoord, w, h) * stride + c : c \in 0..2}
           /\ reads \subseteq BufferOffsets
           /\ ret = getColorFromTextureData(pTextureData, texcoord, w, h, stride)
           /\ (FEq(X(texcoord), One) /\ FEq(Y(texcoord), One))
                => /\ TexelX(texcoord, w) = 0 /\ TexelY(texcoord, h) = 0
                   /\ reads = {0, 1, 2}

\* texcoord (1.0, 1.0) on a texture wider and higher than 1: pixel (0,0) is read
C4_Witness ==
    /\ op = "getColorFromTextureData"
    /\ FEq(X(texcoord), One) /\ FEq(Y(texcoord), One)
    /\ w > 1 /\ h > 1
    /\ reads = {0, 1, 2}

\* C5: for every finite texcoord, negative ones included, the column is
\* floor(w*u) mod w and the row floor(h*v) mod h, both inside the texture,
\* the read stays inside the w*h*stride bytes, and (u + k, v + m) reads the
\* texel of (u, v) for all integers k, m.
C5_RepeatAddressing ==
    op = "getColorFromTextureData"
        => /\ TexelX(texcoord, w) = Floor(FMul(FromInt(w), X(texcoord))) % w
           /\ TexelY(texcoord, h) = Floor(FMul(FromInt(h), Y(texcoord))) % h
           /\ TexelX(texcoord, w) \in 0..(w - 1)
           /\ TexelY(texcoord, h) \in 0..(h - 1)
           /\ reads \subseteq BufferOffsets
           /\ \A k, m \in {0 - 1, 0, 1} :
                TexelIndex(<<FAdd(X(texcoord), FromInt(k)),
                             FAdd(Y(texcoord), FromInt(m))>>, w, h)
                    = TexelIndex(texcoord, w, h)

====
